---- MODULE Spec2Model ----
(***************************************************************************)
(* Model of the manuscript editor's pipeline:                              *)
(*   - openai_editor.py : process_chunks_in_batches, edit_batch_with_retry,*)
(*                        edit_single_chunk, create_openai_client          *)
(*   - chunking_engine.py : DAY_RE, parse_journal_entries                  *)
(*   - app.py : the session state, the buttons and the handlers of main   *)
(*   - document_ingestion.py : detect_file_type, extract_document_text    *)
(*   - pdf_generator.py : concatenate_chunks, get_pdf_stats,              *)
(*                        get_pdf_filename, create_pdf_bytes              *)
(***************************************************************************)
EXTENDS Integers, Sequences, FiniteSets, TLC

(***************************************************************************)
(* Bounds of the model.                                                    *)
(***************************************************************************)
\* longest entry list handed to process_chunks_in_batches
MaxEntries == 5
\* most oracle failures in one run (enough for one entry to exhaust its
\* max_retries + 1 attempts, or for several entries to be retried)
MaxFailures == 4

(***************************************************************************)
(* Program constants.                                                      *)
(***************************************************************************)
\* openai_editor.py:191   batch_size = 4
batch_size == 4
\* openai_editor.py:122   max_retries: int = 3
max_retries == 3

\* The entries the segmenter can hand over: a day number and a non-empty text
\* (parse_journal_entries and chunk_by_paragraphs emit non-empty texts only).
EntryPool == { [day |-> 1, text |-> "a"], [day |-> 2, text |-> "b"] }
\* The texts a successful oracle call can return.
OracleTexts == { "x" }
\* What one oracle call (client.chat.completions.create) can do: return a
\* text, or raise.
OracleOutcomes ==
    { [ok |-> TRUE, text |-> t] : t \in OracleTexts } \cup { [ok |-> FALSE, text |-> ""] }

SeqsUpTo(S, n) == UNION { [1..k -> S] : k \in 0..n }

VARIABLES
    caller,            \* who calls process_chunks_in_batches: "main" (app.py) or "direct"
    api_key,           \* OPENAI_API_KEY is set in the environment
    chunks,            \* the input list of process_chunks_in_batches
    input0,            \* the input list as it was when the call was made
    pc,                \* position in the run
    system_prompt,     \* the system_prompt parameter / local
    client,            \* an OpenAI client has been created
    i,                 \* process_chunks_in_batches: loop variable (0-based start of the batch)
    j,                 \* edit_batch_with_retry: 1-based position in batch_chunks
    attempt,           \* edit_batch_with_retry: current attempt
    edited_text,       \* edit_batch_with_retry: local
    success,           \* edit_batch_with_retry: local
    edited_chunks,     \* edit_batch_with_retry: local list
    all_edited_chunks, \* process_chunks_in_batches: local list
    result,            \* what the call returned
    slept,             \* total time spent in time.sleep
    failures,          \* oracle failures so far (bounded by MaxFailures)
    trace,             \* every oracle call and every progress_callback call, in order
    status,            \* writes of main to status_placeholder, in order
    editing_complete,  \* st.session_state.editing_complete
    session_edited,    \* st.session_state.edited_chunks
    progress,          \* the values main and update_progress set on progress_bar, in order
    cancel_requested,  \* the user has asked for the run to stop
    text,              \* the text handed to the segmenter, a sequence of characters
    method,            \* chunk_document_text: "daily" or "paragraph"
    paragraphs_per_chunk, \* chunk_document_text: the window size
    seg_pc,            \* position of the segmenter: "idle", "input", "parsed" or "raised"
    entries,           \* the list the segmenter returned
    pdf_chunks,        \* the list handed to the functions of pdf_generator
    pdf_done,          \* which of them have returned: "concatenate", "stats", "filename"
    sorted_chunks,     \* concatenate_chunks: local
    full_text,         \* what concatenate_chunks returned
    pdf_stats,         \* what get_pdf_stats returned, a record of its keys
    pdf_filename,      \* what get_pdf_filename returned, the pieces of the name
    story,             \* create_pdf_bytes: per entry, the header line found and the rest
    filename,          \* the name handed to the extractor
    file_bytes,        \* the content handed to the extractor: its format and its parts
    path_readable,     \* extract_document_from_path: open() and read() succeed
    ing_pc,            \* "idle", "input", and after a call "bytes" or "path" (which one)
    extracted,         \* what the call returned: text, success, file_type
    st_api_key,        \* st.session_state.api_key is set
    uploaded_file,     \* the file in the uploader, or NoFile
    st_chunks,         \* st.session_state.chunks
    st_edited_chunks,  \* st.session_state.edited_chunks
    st_editing_complete,     \* st.session_state.editing_complete
    st_chunking_method,      \* st.session_state.chunking_method
    st_paragraphs_per_chunk, \* st.session_state.paragraphs_per_chunk
    last_action,       \* the handler of main that ran last
    last_begin         \* how the last Begin Processing run ended

editVars == << caller, api_key, chunks, input0, pc, system_prompt, client, i, j, attempt,
               edited_text, success, edited_chunks, all_edited_chunks, result, slept,
               failures, trace, status, editing_complete, session_edited, progress,
               cancel_requested >>

segVars == << text, method, paragraphs_per_chunk, seg_pc, entries >>

pdfVars == << pdf_chunks, pdf_done, sorted_chunks, full_text, pdf_stats, pdf_filename,
             story >>

ingVars == << filename, file_bytes, path_readable, ing_pc, extracted >>

appVars == << st_api_key, uploaded_file, st_chunks, st_edited_chunks, st_editing_complete,
             st_chunking_method, st_paragraphs_per_chunk, last_action, last_begin >>

vars == << editVars, segVars, pdfVars, ingVars, appVars >>

Pow2(n) == IF n = 0 THEN 1 ELSE IF n = 1 THEN 2 ELSE IF n = 2 THEN 4 ELSE 8

Min(a, b) == IF a < b THEN a ELSE b

(***************************************************************************)
(* Characters and strings.  A string is a sequence of characters, each a   *)
(* one-character string.                                                   *)
(***************************************************************************)
Letters == { "D", "d", "A", "a", "Y", "y", "x", "S", "u", "n", "G", "r", "e", "t" }
Digits == { "0", "1", "2", "3", "4", "5", "6", "7", "8", "9" }

\* \s , and what str.strip() removes
IsSpace(c) == c \in { " ", "\n" }
\* \d
IsDigit(c) == c \in Digits
\* \w
IsWordChar(c) == c \in Letters \cup Digits \cup { "_" }
\* re.I
Lower(c) == IF c = "D" THEN "d" ELSE IF c = "A" THEN "a" ELSE IF c = "Y" THEN "y" ELSE c

DigitValue(c) ==
    CASE c = "0" -> 0 [] c = "1" -> 1 [] c = "2" -> 2 [] c = "3" -> 3 [] c = "4" -> 4
      [] c = "5" -> 5 [] c = "6" -> 6 [] c = "7" -> 7 [] c = "8" -> 8 [] c = "9" -> 9

\* int(match.group(1))
RECURSIVE ParseInt(_)
ParseInt(ds) ==
    IF ds = << >> THEN 0
    ELSE 10 * ParseInt(SubSeq(ds, 1, Len(ds) - 1)) + DigitValue(ds[Len(ds)])

\* mutant: lstrip() in place of strip()
Strip_Leading(t) ==
    LET keep == { k \in 1..Len(t) : ~IsSpace(t[k]) }
    IN IF keep = {} THEN << >>
       ELSE LET first == CHOOSE k \in keep : \A m \in keep : k <= m
            IN SubSeq(t, first, Len(t))

Strip(t) ==
    LET keep == { k \in 1..Len(t) : ~IsSpace(t[k]) }
    IN IF keep = {} THEN << >>
       ELSE LET first == CHOOSE k \in keep : \A m \in keep : k <= m
                last == CHOOSE k \in keep : \A m \in keep : m <= k
            IN SubSeq(t, first, last)

\* the first position at which pat occurs in s, 0 when it does not
IndexOf(s, pat) ==
    LET at == { k \in 1..(Len(s) - Len(pat) + 1) : SubSeq(s, k, k + Len(pat) - 1) = pat }
    IN IF at = {} THEN 0 ELSE CHOOSE k \in at : \A m \in at : k <= m

\* pat in s
Contains(s, pat) == IndexOf(s, pat) # 0

\* s.split(pat)
RECURSIVE SplitOn(_, _)
SplitOn(s, pat) ==
    IF IndexOf(s, pat) = 0 THEN << s >>
    ELSE << SubSeq(s, 1, IndexOf(s, pat) - 1) >>
         \o SplitOn(SubSeq(s, IndexOf(s, pat) + Len(pat), Len(s)), pat)

UpperCase == << "A", "B", "C", "D", "E", "F", "G", "H", "I", "J", "K", "L", "M",
                "N", "O", "P", "Q", "R", "S", "T", "U", "V", "W", "X", "Y", "Z" >>
LowerCase == << "a", "b", "c", "d", "e", "f", "g", "h", "i", "j", "k", "l", "m",
                "n", "o", "p", "q", "r", "s", "t", "u", "v", "w", "x", "y", "z" >>

\* s.lower()
str_lower(s) ==
    [k \in 1..Len(s) |->
        IF \E u \in 1..26 : UpperCase[u] = s[k]
        THEN LowerCase[CHOOSE u \in 1..26 : UpperCase[u] = s[k]]
        ELSE s[k]]

\* s.endswith(suffix)
EndsWith(s, suffix) ==
    Len(s) >= Len(suffix) /\ SubSeq(s, Len(s) - Len(suffix) + 1, Len(s)) = suffix

\* s.startswith(prefix)
StartsWith(s, prefix) == Len(s) >= Len(prefix) /\ SubSeq(s, 1, Len(prefix)) = prefix

\* str(n) for n >= 0
RECURSIVE DigitsOf(_)
DigitsOf(n) ==
    LET last == CHOOSE c \in Digits : DigitValue(c) = n % 10
    IN IF n < 10 THEN << last >> ELSE DigitsOf(n \div 10) \o << last >>

\* int(s) for a string without sign: whitespace around the digits is allowed,
\* anything else raises ValueError
IntOf(s) ==
    LET ds == Strip(s)
    IN IF ds # << >> /\ \A k \in 1..Len(ds) : IsDigit(ds[k])
       THEN [raised |-> FALSE, val |-> ParseInt(ds)]
       ELSE [raised |-> TRUE, val |-> 0]

\* chunks[i:i + batch_size] with the 0-based i of the code
batch_chunks == SubSeq(chunks, i + 1, Min(i + batch_size, Len(chunks)))

\* mutant: the batch count rounded down
total_batches_Floor == Len(chunks) \div batch_size

\* (total_chunks + batch_size - 1) // batch_size
total_batches == (Len(chunks) + batch_size - 1) \div batch_size

\* (i // batch_size) + 1
batch_num == (i \div batch_size) + 1

\* one oracle call: the entry's position in the input (1-based), the attempt, the
\* arguments passed, the time slept so far when it was dispatched, and what it did
CallEvent(idx, a, content, prompt, outcome) ==
    [ev |-> "call", idx |-> idx, attempt |-> a, text |-> content, prompt |-> prompt,
     slept |-> slept, ok |-> outcome.ok, ret |-> outcome.text, b |-> 0, t |-> 0]

\* one call of progress_callback: "Sending batch b/t ..."
ProgressEvent(b, t) ==
    [ev |-> "progress", idx |-> 0, attempt |-> 0, text |-> "", prompt |-> "",
     slept |-> slept, ok |-> FALSE, ret |-> "", b |-> b, t |-> t]

\* mutant: the empty check left out
IsEmptyInput_Never(cs) == FALSE

\* if not chunks (line 180)
IsEmptyInput(cs) == cs = << >>

\* mutant: the batch put in front of the list
Extend_Prepend(all, batch) == batch \o all

\* all_edited_chunks.extend(edited_batch) (line 206)
Extend(all, batch) == all \o batch

\* mutant: a step one too long
NextBatchStart_Skip(k) == k + batch_size + 1

\* range(0, total_chunks, batch_size): the start of the next batch
NextBatchStart(k) == k + batch_size

\* mutant: a failed call gives back no text instead of chunk_text
edit_single_chunk_NoText(outcome, chunk_text) ==
    IF outcome.ok
    THEN [text |-> outcome.text, success |-> TRUE,  raised |-> FALSE]
    ELSE [text |-> "",            success |-> FALSE, raised |-> FALSE]

(***************************************************************************)
(* edit_single_chunk: one oracle call.  Every exception of the call is     *)
(* caught inside and turned into (chunk_text, False); nothing is raised.   *)
(***************************************************************************)
edit_single_chunk(outcome, chunk_text) ==
    IF outcome.ok
    THEN [text |-> outcome.text, success |-> TRUE,  raised |-> FALSE]
    ELSE [text |-> chunk_text,   success |-> FALSE, raised |-> FALSE]

\* the except branch of edit_batch_with_retry: the time slept after a raised attempt
BackoffWait(raised, a) ==
    IF raised /\ a < max_retries THEN Pow2(a) ELSE 0

\* mutant: no break on success
LoopEnds_NoBreak(ok, a) == a = max_retries

\* for attempt in range(max_retries + 1): the loop ends after this attempt
LoopEnds(ok, a) == ok \/ a = max_retries

\* mutant: the first entry of the batch at every step of the loop
CurrentChunk_First(batch, k) == batch[1]

\* for chunk in batch_chunks (line 137): the entry of the k-th iteration
CurrentChunk(batch, k) == batch[k]

\* mutant: the attempts of an entry go on where those of the entry before it ended
FirstAttempt_Carry(previous) == previous

\* for attempt in range(max_retries + 1) (line 144): every entry starts at attempt 0
FirstAttempt(previous) == 0

\* mutant: the new text is written into the entry of the input list
InputAfterAppend_InPlace(cs, idx, new_text) ==
    [cs EXCEPT ![idx] = [day |-> cs[idx].day, text |-> new_text]]

\* lines 159-163: the result is a new dict appended to edited_chunks; the list
\* passed in and its entries are not written to
InputAfterAppend(cs, idx, new_text) == cs

\* the entry appended to edited_chunks
OutEntry(day_num, new_text, ok) == [day |-> day_num, text |-> new_text, edited |-> ok]

\* no function of pdf_generator has been called
PdfIdle ==
    /\ pdf_chunks = << >>
    /\ pdf_done = {}
    /\ sorted_chunks = << >>
    /\ full_text = << >>
    /\ pdf_stats = << >>
    /\ pdf_filename = << >>
    /\ story = << >>

\* no file in the uploader
NoFile == [name |-> << >>, content |-> [fmt |-> "none", parts |-> << >>]]

\* the extractor is not running
IngIdle ==
    /\ filename = << >>
    /\ file_bytes = NoFile.content
    /\ path_readable = TRUE
    /\ ing_pc = "idle"
    /\ extracted = << >>

\* main has not run: the session state as lines 19-39 of app.py set it
AppIdle ==
    /\ st_api_key = FALSE
    /\ uploaded_file = NoFile
    /\ st_chunks = << >>
    /\ st_edited_chunks = << >>
    /\ st_editing_complete = FALSE
    /\ st_chunking_method = "daily"
    /\ st_paragraphs_per_chunk = 3
    /\ last_action = "none"
    /\ last_begin = "none"

\* the segmenter is not running
SegIdle ==
    /\ text = << >>
    /\ method = "daily"
    /\ paragraphs_per_chunk = 3
    /\ seg_pc = "idle"
    /\ entries = << >>

(***************************************************************************)
(* Init: a call of process_chunks_in_batches is about to be made.          *)
(* main offers the button only when st.session_state.chunks is non-empty   *)
(* (app.py:145) and passes its session prompt and update_progress; a direct *)
(* call (test_editing_with_sample) passes no prompt and no callback.       *)
(***************************************************************************)
Init ==
    /\ caller \in {"main", "direct"}
    /\ api_key \in BOOLEAN
    /\ chunks \in SeqsUpTo(EntryPool, MaxEntries)
    /\ (caller = "main" => chunks # << >>)
    /\ input0 = chunks
    /\ pc = "call"
    /\ system_prompt = IF caller = "main" THEN "session" ELSE "None"
    /\ client = FALSE
    /\ i = 0
    /\ j = 1
    /\ attempt = 0
    /\ edited_text = ""
    /\ success = FALSE
    /\ edited_chunks = << >>
    /\ all_edited_chunks = << >>
    /\ result = << >>
    /\ slept = 0
    /\ failures = 0
    /\ trace = << >>
    /\ status = IF caller = "main" THEN << "starting", "connecting" >> ELSE << >>
    /\ editing_complete = FALSE
    /\ session_edited = << >>
    /\ progress = IF caller = "main" THEN << 0, 10 >> ELSE << >>
    /\ cancel_requested = FALSE
    /\ SegIdle
    /\ PdfIdle
    /\ IngIdle
    /\ AppIdle

progress_callback == caller = "main"

\* the horizontal ellipsis, one character that is neither a digit nor whitespace
\* nor a full stop
Ellipsis == "U+2026"

\* line 202 of openai_editor.py: f"Sending batch {batch_num}/{total_batches} [ellipsis]"
BatchMessage(b, t) ==
    << "S", "e", "n", "d", "i", "n", "g", " ", "b", "a", "t", "c", "h", " " >>
    \o DigitsOf(b) \o << "/" >> \o DigitsOf(t) \o << " ", Ellipsis >>

\* app.py:435: int((current_batch / total_batches) * 80) + 10; the quotient is a
\* float in the code and the product is rounded down
progress_percent(current, total) == (current * 80) \div total + 10

\* app.py:431-438: the value for the two numbers read out of the message; an
\* exception on the way (an int() that fails, a missing part, a division by
\* zero) is caught by the bare except, which sets 50
ParsedPercent(current_batch, total_batches_read) ==
    IF current_batch.raised \/ total_batches_read.raised \/ total_batches_read.val = 0
    THEN 50
    ELSE progress_percent(current_batch.val, total_batches_read.val)

\* update_progress (app.py:423-440): the value it sets on progress_bar is
\* appended to the values set so far; a message without "batch" sets nothing,
\* and message.split("batch ")[1] raises when the split gives one part only.
\* parts, current_batch and total_batches are the locals of lines 432-434.
update_progress(message) ==
    \E lowered \in { str_lower(message) } :
    IF Contains(lowered, << "b", "a", "t", "c", "h" >>)
    THEN \E after \in { SplitOn(message, << "b", "a", "t", "c", "h", " " >>) } :
         IF Len(after) >= 2
         THEN \E parts \in { SplitOn(after[2], << "/" >>) } :
              \E current_batch \in { IntOf(parts[1]) } :
              \E total_part \in { IF Len(parts) >= 2
                                  THEN SplitOn(parts[2], << ".", ".", "." >>)
                                  ELSE << >> } :
              \E total_batches_read \in { IF total_part # << >>
                                          THEN IntOf(total_part[1])
                                          ELSE [raised |-> TRUE, val |-> 0] } :
                  progress' = Append(progress,
                                     ParsedPercent(current_batch, total_batches_read))
         ELSE progress' = Append(progress, 50)
    ELSE progress' = progress

\* get_editing_stats(edited_chunks)['failed']
FailedCount(es) == Cardinality({ k \in 1..Len(es) : ~es[k].edited })

\* mutant: main shows its summary without the completion status
MainAfterReturn_NoDone(es) ==
    /\ session_edited' = es
    /\ editing_complete' = TRUE
    /\ progress' = Append(progress, 100)
    /\ status' = status \o << IF FailedCount(es) = 0 THEN "success" ELSE "warning" >>

\* main after process_chunks_in_batches returned (app.py:453-475)
MainAfterReturn(es) ==
    /\ session_edited' = es
    /\ editing_complete' = TRUE
    /\ progress' = Append(progress, 100)
    /\ status' = status \o << "Done - generating PDF",
                              IF FailedCount(es) = 0 THEN "success" ELSE "warning" >>

\* main's except branch (app.py:477-486)
MainAfterRaise ==
    /\ status' = status \o << "AI editing failed" >>
    /\ UNCHANGED << session_edited, editing_complete, progress >>

(***************************************************************************)
(* process_chunks_in_batches, lines 180-193: the empty check, the default  *)
(* prompt, the client.                                                     *)
(***************************************************************************)
EnterEmpty ==
    /\ pc = "call"
    /\ IsEmptyInput(chunks)
    /\ pc' = "done"
    /\ result' = << >>
    /\ IF caller = "main" THEN MainAfterReturn(<< >>)
       ELSE UNCHANGED << status, session_edited, editing_complete, progress >>
    /\ UNCHANGED segVars
    /\ UNCHANGED pdfVars
    /\ UNCHANGED << ingVars, appVars >>
    /\ UNCHANGED << cancel_requested, caller, api_key, chunks, input0, system_prompt, client, i, j, attempt,
                    edited_text, success, edited_chunks, all_edited_chunks, slept,
                    failures, trace >>

EnterNoKey ==
    /\ pc = "call"
    /\ ~IsEmptyInput(chunks)
    /\ ~api_key
    /\ system_prompt' = IF system_prompt = "None" THEN "default" ELSE system_prompt
    /\ pc' = "raised"
    /\ IF caller = "main" THEN MainAfterRaise
       ELSE UNCHANGED << status, session_edited, editing_complete, progress >>
    /\ UNCHANGED segVars
    /\ UNCHANGED pdfVars
    /\ UNCHANGED << ingVars, appVars >>
    /\ UNCHANGED << cancel_requested, caller, api_key, chunks, input0, client, i, j, attempt,
                    edited_text, success, edited_chunks, all_edited_chunks, result, slept,
                    failures, trace >>

Enter ==
    /\ pc = "call"
    /\ ~IsEmptyInput(chunks)
    /\ api_key
    /\ system_prompt' = IF system_prompt = "None" THEN "default" ELSE system_prompt
    /\ client' = TRUE
    /\ i' = 0
    /\ all_edited_chunks' = << >>
    /\ pc' = "batch"
    /\ UNCHANGED segVars
    /\ UNCHANGED pdfVars
    /\ UNCHANGED << ingVars, appVars >>
    /\ UNCHANGED << cancel_requested, caller, api_key, chunks, input0, j, attempt, edited_text, success,
                    edited_chunks, result, slept, failures, trace, status,
                    editing_complete, session_edited, progress >>

(***************************************************************************)
(* process_chunks_in_batches, lines 195-205: the head of one iteration of  *)
(* the batch loop, up to the call of edit_batch_with_retry.                *)
(***************************************************************************)
StartBatch ==
    /\ pc = "batch"
    /\ i < Len(chunks)
    /\ trace' = IF progress_callback
                THEN Append(trace, ProgressEvent(batch_num, total_batches))
                ELSE trace
    /\ status' = IF progress_callback THEN Append(status, "batch") ELSE status
    /\ IF progress_callback
       THEN \E message \in { BatchMessage(batch_num, total_batches) } :
                update_progress(message)
       ELSE progress' = progress
    /\ edited_chunks' = << >>
    /\ j' = 1
    /\ attempt' = 0
    /\ success' = FALSE
    /\ edited_text' = batch_chunks[1].text
    /\ pc' = "attempt"
    /\ UNCHANGED segVars
    /\ UNCHANGED pdfVars
    /\ UNCHANGED << ingVars, appVars >>
    /\ UNCHANGED << cancel_requested, caller, api_key, chunks, input0, system_prompt, client, i,
                    all_edited_chunks, result, slept, failures,
                    editing_complete, session_edited >>

(***************************************************************************)
(* edit_batch_with_retry, lines 144-163: one attempt on batch_chunks[j].   *)
(* When the retry loop ends the entry is appended; after the last entry of *)
(* the batch the list goes back to process_chunks_in_batches (line 206).   *)
(***************************************************************************)
Attempt(outcome) ==
    /\ pc = "attempt"
    /\ (~outcome.ok => failures < MaxFailures)
    /\ LET chunk == CurrentChunk(batch_chunks, j)
           chunk_text == chunk.text
           day_num == chunk.day
           r == edit_single_chunk(outcome, chunk_text)
           text1 == IF r.raised THEN edited_text ELSE r.text
           ok1 == IF r.raised THEN success ELSE r.success
           ends == LoopEnds((~r.raised) /\ r.success, attempt)
           appended == Append(edited_chunks, OutEntry(day_num, text1, ok1))
       IN
       /\ trace' = Append(trace, CallEvent(i + j, attempt, chunk_text, system_prompt, outcome))
       /\ failures' = IF outcome.ok THEN failures ELSE failures + 1
       /\ slept' = slept + BackoffWait(r.raised, attempt)
       /\ chunks' = IF ends THEN InputAfterAppend(chunks, i + j, text1) ELSE chunks
       /\ IF ~ends
          THEN /\ attempt' = attempt + 1
               /\ edited_text' = text1
               /\ success' = ok1
               /\ UNCHANGED << j, i, edited_chunks, all_edited_chunks, pc >>
          ELSE IF j < Len(batch_chunks)
          THEN /\ edited_chunks' = appended
               /\ j' = j + 1
               /\ attempt' = FirstAttempt(attempt)
               /\ success' = FALSE
               /\ edited_text' = batch_chunks[j + 1].text
               /\ UNCHANGED << i, all_edited_chunks, pc >>
          ELSE /\ all_edited_chunks' = Extend(all_edited_chunks, appended)
               /\ edited_chunks' = appended
               /\ i' = NextBatchStart(i)
               /\ pc' = "batch"
               /\ edited_text' = text1
               /\ success' = ok1
               /\ UNCHANGED << j, attempt >>
    /\ UNCHANGED segVars
    /\ UNCHANGED pdfVars
    /\ UNCHANGED << ingVars, appVars >>
    /\ UNCHANGED << cancel_requested, caller, api_key, input0, system_prompt, client, result,
                    status, editing_complete, session_edited, progress >>

(***************************************************************************)
(* process_chunks_in_batches, line 208, and what the caller does with the  *)
(* returned list.                                                          *)
(***************************************************************************)
Return ==
    /\ pc = "batch"
    /\ i >= Len(chunks)
    /\ result' = all_edited_chunks
    /\ pc' = "done"
    /\ IF caller = "main" THEN MainAfterReturn(all_edited_chunks)
       ELSE UNCHANGED << status, session_edited, editing_complete, progress >>
    /\ UNCHANGED segVars
    /\ UNCHANGED pdfVars
    /\ UNCHANGED << ingVars, appVars >>
    /\ UNCHANGED << cancel_requested, caller, api_key, chunks, input0, system_prompt, client, i, j, attempt,
                    edited_text, success, edited_chunks, all_edited_chunks, slept,
                    failures, trace >>

Next ==
    \/ EnterEmpty
    \/ EnterNoKey
    \/ Enter
    \/ StartBatch
    \/ \E outcome \in OracleOutcomes : Attempt(outcome)
    \/ Return

Spec == Init /\ [][Next]_vars

(***************************************************************************)
(* The user asks for the run to stop while it is under way.  Nothing in    *)
(* openai_editor.py or app.py takes such a request: there is no parameter, *)
(* flag or check for it, and the widgets of main are disabled while        *)
(* st.session_state.processing is set.  The request is recorded here so    *)
(* that what the run does after it can be stated.                          *)
(***************************************************************************)
RequestCancel ==
    /\ pc \in { "batch", "attempt" }
    /\ ~cancel_requested
    /\ cancel_requested' = TRUE
    /\ UNCHANGED segVars
    /\ UNCHANGED pdfVars
    /\ UNCHANGED << ingVars, appVars >>
    /\ UNCHANGED << caller, api_key, chunks, input0, pc, system_prompt, client, i, j,
                    attempt, edited_text, success, edited_chunks, all_edited_chunks,
                    result, slept, failures, trace, status, editing_complete,
                    session_edited, progress >>

CancelNext == Next \/ RequestCancel

CancelSpec == Init /\ [][CancelNext]_vars

(***************************************************************************)
(* The segmenter, chunking_engine.py.  A text is a sequence of characters, *)
(* each a one-character string.                                            *)
(***************************************************************************)
\* longest single line whose header match is checked
MaxLineLen == 6
\* most lines of a text that is segmented
MaxLines == 4

\* the characters single lines are made of: "Day" in two cases of D, a
\* whitespace character and a digit
LineAlphabet == { "D", "d", "a", "y", " ", "1" }

\* longer single lines: an underscore, a dash, a letter after the digits, a word
\* that ends in "day", no whitespace before the digits, a title after the number
SampleLines ==
    { << "D", "a", "y", " ", "1", "_" >>,
      << "D", "a", "y", " ", "1", "2", "-", "x" >>,
      << "D", "A", "Y", " ", " ", "2", "3", "x" >>,
      << "S", "u", "n", "d", "a", "y", " ", "3" >>,
      << "D", "a", "y", "3" >>,
      << " ", "d", "a", "y", " ", "3", " ", "-", " ", "A", " ", "G", "r", "e", "a", "t" >> }

\* the lines multi-line texts are made of
LinePool ==
    { << "D", "a", "y", " ", "1" >>,
      << " ", "d", "A", "Y", " ", "1", "2", " ", "x" >>,
      << "D", "a", "y", "1" >>,
      << "x" >>,
      << " " >>,
      << >> }

\* mutant: \b left out of DAY_RE
WordBoundary_None(line, e) == TRUE

\* \b at offset e of line (e characters consumed)
WordBoundary(line, e) ==
    LET before == e >= 1 /\ IsWordChar(line[e])
        after == e < Len(line) /\ IsWordChar(line[e + 1])
    IN before # after

(***************************************************************************)
(* DAY_RE = re.compile(r'^\s*Day\s+(\d+)\b.*', re.I) and DAY_RE.match(line) *)
(* The offsets the match can be at after each part of the pattern; the     *)
(* match the engine returns is the one of the greedy choices.              *)
(***************************************************************************)
\* after ^\s*
AfterLeadingSpace(line) ==
    { q \in 0..Len(line) : \A k \in 1..q : IsSpace(line[k]) }

\* after Day
AfterDay(line) ==
    { q + 3 : q \in { q0 \in AfterLeadingSpace(line) :
                          /\ q0 + 3 <= Len(line)
                          /\ Lower(line[q0 + 1]) = "d"
                          /\ Lower(line[q0 + 2]) = "a"
                          /\ Lower(line[q0 + 3]) = "y" } }

\* after \s+
AfterSeparator(line) ==
    { q \in 1..Len(line) :
          \E p0 \in AfterDay(line) : p0 < q /\ \A k \in (p0 + 1)..q : IsSpace(line[k]) }

\* (\d+)\b : the groups <<start, end>> a match can have; .* then takes the rest
DayGroups(line) ==
    { g \in AfterSeparator(line) \X (1..Len(line)) :
          /\ g[1] < g[2]
          /\ \A k \in (g[1] + 1)..g[2] : IsDigit(line[k])
          /\ WordBoundary(line, g[2]) }

DAY_RE_match(line) ==
    LET gs == DayGroups(line)
    IN IF gs = {}
       THEN [matched |-> FALSE, group1 |-> << >>]
       ELSE LET g == CHOOSE g0 \in gs :
                         \A h \in gs : h[1] < g0[1] \/ (h[1] = g0[1] /\ h[2] <= g0[2])
            IN [matched |-> TRUE, group1 |-> SubSeq(line, g[1] + 1, g[2])]

(***************************************************************************)
(* str.split('\n'), '\n'.join and str.strip()                              *)
(***************************************************************************)
RECURSIVE SplitLines(_)
SplitLines(t) ==
    IF \A k \in 1..Len(t) : t[k] # "\n"
    THEN << t >>
    ELSE LET n == CHOOSE k \in 1..Len(t) : t[k] = "\n" /\ \A m \in 1..(k - 1) : t[m] # "\n"
         IN << SubSeq(t, 1, n - 1) >> \o SplitLines(SubSeq(t, n + 1, Len(t)))

RECURSIVE JoinLines(_)
JoinLines(ls) ==
    IF ls = << >> THEN << >>
    ELSE IF Len(ls) = 1 THEN ls[1]
    ELSE ls[1] \o << "\n" >> \o JoinLines(Tail(ls))

(***************************************************************************)
(* parse_journal_entries                                                   *)
(***************************************************************************)
\* mutant: current_day starts as day 0 instead of None
InitialDay_Zero == [some |-> TRUE, val |-> 0]

\* current_day = None (line 28)
InitialDay == [some |-> FALSE, val |-> 0]

\* mutant: an entry whose day is already in the list is not saved
SaveEntry_Dedup(es, current_day, current_content) ==
    LET entry_text == Strip(JoinLines(current_content))
    IN IF /\ current_day.some
          /\ entry_text # << >>
          /\ \A k \in 1..Len(es) : es[k].day # current_day.val
       THEN Append(es, [day |-> current_day.val, text |-> entry_text])
       ELSE es

\* lines 39-45 and 56-62: the open entry is saved when there is one and its text
\* is not empty after strip()
SaveEntry(es, current_day, current_content) ==
    LET entry_text == Strip(JoinLines(current_content))
    IN IF current_day.some /\ entry_text # << >>
       THEN Append(es, [day |-> current_day.val, text |-> entry_text])
       ELSE es

\* the for loop (lines 33-53) from line k on, then lines 56-64
RECURSIVE ParseLoop(_, _, _, _, _)
ParseLoop(lines, k, es, current_day, current_content) ==
    IF k > Len(lines)
    THEN SaveEntry(es, current_day, current_content)
    ELSE LET line == lines[k]
             match == DAY_RE_match(line)
         IN IF match.matched
            THEN ParseLoop(lines, k + 1, SaveEntry(es, current_day, current_content),
                           [some |-> TRUE, val |-> ParseInt(match.group1)], << line >>)
            ELSE ParseLoop(lines, k + 1, es, current_day,
                           IF current_day.some THEN Append(current_content, line)
                           ELSE current_content)

parse_journal_entries(t) == ParseLoop(SplitLines(t), 1, << >>, InitialDay, << >>)

\* the orchestrator is not running
EditIdle ==
    /\ caller = "direct"
    /\ api_key = FALSE
    /\ chunks = << >>
    /\ input0 = << >>
    /\ pc = "idle"
    /\ system_prompt = "None"
    /\ client = FALSE
    /\ i = 0
    /\ j = 1
    /\ attempt = 0
    /\ edited_text = ""
    /\ success = FALSE
    /\ edited_chunks = << >>
    /\ all_edited_chunks = << >>
    /\ result = << >>
    /\ slept = 0
    /\ failures = 0
    /\ trace = << >>
    /\ status = << >>
    /\ editing_complete = FALSE
    /\ session_edited = << >>
    /\ progress = << >>
    /\ cancel_requested = FALSE

(***************************************************************************)
(* chunk_by_paragraphs (lines 67-118).  A call returns a list or raises:   *)
(* the result is [raised, chunks].                                         *)
(***************************************************************************)
MaxDocLines == 6
MaxWindow == 3

\* the lines documents are made of: a word, a header line with whitespace
\* around it, the empty line and a line of whitespace
DocLinePool == { << "a" >>, << " ", "D", "a", "y", " ", "1", " " >>, << >>, << " " >> }

\* the window sizes a caller can pass: the function takes any integer
WindowSizes == (0 - 1)..MaxWindow

RECURSIVE Join(_, _)
Join(sep, parts) ==
    IF parts = << >> THEN << >>
    ELSE IF Len(parts) = 1 THEN parts[1]
    ELSE parts[1] \o sep \o Join(sep, Tail(parts))

\* mutant: the whitespace check of lines 79-80 is left out
IsBlankText_Never(t) == FALSE

\* line 79: not text.strip()
IsBlankText(t) == Strip(t) = << >>

\* mutant: the paragraph open at the end of the text is dropped
FlushLast_Never(paragraphs, current_paragraph) == paragraphs

\* lines 99-101: the paragraph open at the end of the text is added
FlushLast(paragraphs, current_paragraph) ==
    IF current_paragraph # << >>
    THEN Append(paragraphs, Join(<< " " >>, current_paragraph))
    ELSE paragraphs

\* lines 83-101: the loop over the lines, from line k on
RECURSIVE ParagraphLoop(_, _, _, _)
ParagraphLoop(lines, k, paragraphs, current_paragraph) ==
    IF k > Len(lines) THEN FlushLast(paragraphs, current_paragraph)
    ELSE LET line == Strip(lines[k])
         IN IF line # << >>
            THEN ParagraphLoop(lines, k + 1, paragraphs, Append(current_paragraph, line))
            ELSE IF current_paragraph # << >>
                 THEN ParagraphLoop(lines, k + 1,
                                    Append(paragraphs, Join(<< " " >>, current_paragraph)),
                                    << >>)
                 ELSE ParagraphLoop(lines, k + 1, paragraphs, current_paragraph)

\* line 107: range(0, len(paragraphs), paragraphs_per_chunk) raises ValueError
\* for a step of zero
RangeRaises(step) == step = 0

\* lines 107-116: the loop over range(0, len(paragraphs), step) from start on; a
\* negative step gives the empty range
RECURSIVE ChunkLoop(_, _, _, _, _)
ChunkLoop(paragraphs, start, step, acc, chunk_number) ==
    IF step < 0 \/ start >= Len(paragraphs) THEN acc
    ELSE LET chunk_paragraphs == SubSeq(paragraphs, start + 1,
                                        Min(start + step, Len(paragraphs)))
             chunk_text == Join(<< "\n", "\n" >>, chunk_paragraphs)
         IN IF Strip(chunk_text) # << >>
            THEN ChunkLoop(paragraphs, start + step, step,
                           Append(acc, [day |-> chunk_number, text |-> chunk_text]),
                           chunk_number + 1)
            ELSE ChunkLoop(paragraphs, start + step, step, acc, chunk_number)

chunk_by_paragraphs(t, step) ==
    IF IsBlankText(t) THEN [raised |-> FALSE, chunks |-> << >>]
    ELSE LET paragraphs == ParagraphLoop(SplitLines(t), 1, << >>, << >>)
         IN IF RangeRaises(step) THEN [raised |-> TRUE, chunks |-> << >>]
            ELSE [raised |-> FALSE, chunks |-> ChunkLoop(paragraphs, 0, step, << >>, 1)]

\* lines 121-136
chunk_document_text(t, m, step) ==
    IF m = "paragraph" THEN chunk_by_paragraphs(t, step)
    ELSE [raised |-> FALSE, chunks |-> parse_journal_entries(t)]

\* chunk_document_text(text, method, paragraphs_per_chunk): it returns the list
\* of entries or raises
Parse ==
    /\ seg_pc = "input"
    /\ LET r == chunk_document_text(text, method, paragraphs_per_chunk)
       IN /\ entries' = r.chunks
          /\ seg_pc' = IF r.raised THEN "raised" ELSE "parsed"
    /\ UNCHANGED << text, method, paragraphs_per_chunk >>
    /\ UNCHANGED editVars
    /\ UNCHANGED pdfVars
    /\ UNCHANGED << ingVars, appVars >>

\* a text of one line: every line over LineAlphabet up to MaxLineLen, and the
\* sample lines
LineInit ==
    /\ text \in SeqsUpTo(LineAlphabet, MaxLineLen) \cup SampleLines
    /\ method = "daily"
    /\ paragraphs_per_chunk = 3
    /\ seg_pc = "input"
    /\ entries = << >>
    /\ EditIdle
    /\ PdfIdle
    /\ IngIdle
    /\ AppIdle

LineSpec == LineInit /\ [][Parse]_vars

\* a text of up to MaxLines lines of LinePool
SegInit ==
    /\ text \in { JoinLines(ls) : ls \in SeqsUpTo(LinePool, MaxLines) }
    /\ method = "daily"
    /\ paragraphs_per_chunk = 3
    /\ seg_pc = "input"
    /\ entries = << >>
    /\ EditIdle
    /\ PdfIdle
    /\ IngIdle
    /\ AppIdle

SegSpec == SegInit /\ [][Parse]_vars

\* a document of up to MaxDocLines lines of DocLinePool, in tagged mode or in
\* windowed mode with any window size of WindowSizes
DocInit ==
    /\ text \in { JoinLines(ls) : ls \in SeqsUpTo(DocLinePool, MaxDocLines) }
    /\ \/ method = "daily" /\ paragraphs_per_chunk = 3
       \/ method = "paragraph" /\ paragraphs_per_chunk \in WindowSizes
    /\ seg_pc = "input"
    /\ entries = << >>
    /\ EditIdle
    /\ PdfIdle
    /\ IngIdle
    /\ AppIdle

DocSpec == DocInit /\ [][Parse]_vars

(***************************************************************************)
(* pdf_generator.py: concatenate_chunks, get_pdf_stats, get_pdf_filename.  *)
(***************************************************************************)
MaxChunks == 3
MaxDay == 3
WordsPerPage == 250

\* texts of entries: a word, two words with whitespace around them, and a text
\* of nothing but whitespace
PdfTexts == { << "A" >>, << " ", "B", " ", "c", "\n" >>, << " " >> }

PdfPool == { [day |-> d, text |-> t] : d \in 1..MaxDay, t \in PdfTexts }

\* mutant: an entry goes in front of the entries of the same day
InsertByDay_BeforeEqual(s, x) ==
    LET n == Cardinality({ k \in 1..Len(s) : s[k].day < x.day })
    IN SubSeq(s, 1, n) \o << x >> \o SubSeq(s, n + 1, Len(s))

\* an entry goes behind the entries of a day not greater than its own
InsertByDay(s, x) ==
    LET n == Cardinality({ k \in 1..Len(s) : s[k].day <= x.day })
    IN SubSeq(s, 1, n) \o << x >> \o SubSeq(s, n + 1, Len(s))

\* sorted(chunks, key=lambda x: x["day"]): Python's sort is stable
RECURSIVE SortedFrom(_, _, _)
SortedFrom(cs, k, acc) ==
    IF k > Len(cs) THEN acc ELSE SortedFrom(cs, k + 1, InsertByDay(acc, cs[k]))

sorted_by_day(cs) == SortedFrom(cs, 1, << >>)

\* mutant: a blank line as the separator
Separator_Blank == << "\n", "\n" >>

\* line 42: "\n\n\n\n"
Separator == << "\n", "\n", "\n", "\n" >>

\* lines 34-39: the loop over sorted_chunks from position k on
RECURSIVE TextParts(_, _, _)
TextParts(cs, k, full_text_parts) ==
    IF k > Len(cs) THEN full_text_parts
    ELSE LET chunk_text == Strip(cs[k].text)
         IN TextParts(cs, k + 1,
                      IF chunk_text # << >> THEN Append(full_text_parts, chunk_text)
                      ELSE full_text_parts)

\* lines 17-44
concatenate_chunks(cs) ==
    IF cs = << >> THEN << >>
    ELSE Join(Separator, TextParts(sorted_by_day(cs), 1, << >>))

\* len(text.split()): the number of maximal runs of characters that are not
\* whitespace
WordCount(t) ==
    Cardinality({ k \in 1..Len(t) : ~IsSpace(t[k]) /\ (k = 1 \/ IsSpace(t[k - 1])) })

Max(a, b) == IF a >= b THEN a ELSE b

\* lines 220-226: the loop over chunks from position k on
RECURSIVE StatsLoop(_, _, _, _)
StatsLoop(cs, k, total_words, total_chars) ==
    IF k > Len(cs) THEN [words |-> total_words, characters |-> total_chars]
    ELSE StatsLoop(cs, k + 1, total_words + WordCount(cs[k].text),
                   total_chars + Len(cs[k].text))

\* lines 204-233: the dictionary returned, as a record of its keys
get_pdf_stats(cs) ==
    IF cs = << >> THEN [entries |-> 0, words |-> 0, characters |-> 0]
    ELSE LET totals == StatsLoop(cs, 1, 0, 0)
         IN [entries |-> Len(cs),
             words |-> totals.words,
             characters |-> totals.characters,
             estimated_pages |-> Max(1, totals.words \div WordsPerPage)]

first_day(cs) == sorted_by_day(cs)[1].day

\* mutant: the last entry of the list as it came
last_day_Unsorted(cs) == cs[Len(cs)].day

last_day(cs) == sorted_by_day(cs)[Len(cs)].day

\* lines 180-201: the name as the pieces the f-string puts together
get_pdf_filename(cs) ==
    IF cs = << >> THEN << "enhanced_journal.pdf" >>
    ELSE IF first_day(cs) = last_day(cs)
         THEN << "enhanced_journal_day_", first_day(cs), ".pdf" >>
         ELSE << "enhanced_journal_days_", first_day(cs), "-", last_day(cs), ".pdf" >>

Concatenate ==
    /\ "concatenate" \notin pdf_done
    /\ pdf_done' = pdf_done \cup { "concatenate" }
    /\ sorted_chunks' = IF pdf_chunks = << >> THEN << >> ELSE sorted_by_day(pdf_chunks)
    /\ full_text' = concatenate_chunks(pdf_chunks)
    /\ UNCHANGED << pdf_chunks, pdf_stats, pdf_filename, story >>
    /\ UNCHANGED << editVars, segVars, ingVars, appVars >>

Stats ==
    /\ "stats" \notin pdf_done
    /\ pdf_done' = pdf_done \cup { "stats" }
    /\ pdf_stats' = get_pdf_stats(pdf_chunks)
    /\ UNCHANGED << pdf_chunks, sorted_chunks, full_text, pdf_filename, story >>
    /\ UNCHANGED << editVars, segVars, ingVars, appVars >>

Filename ==
    /\ "filename" \notin pdf_done
    /\ pdf_done' = pdf_done \cup { "filename" }
    /\ pdf_filename' = get_pdf_filename(pdf_chunks)
    /\ UNCHANGED << pdf_chunks, sorted_chunks, full_text, pdf_stats, story >>
    /\ UNCHANGED << editVars, segVars, ingVars, appVars >>

\* a list of up to MaxChunks entries of PdfPool, in any order and with repeated
\* days
PdfInit ==
    /\ pdf_chunks \in SeqsUpTo(PdfPool, MaxChunks)
    /\ pdf_done = {}
    /\ sorted_chunks = << >>
    /\ full_text = << >>
    /\ pdf_stats = << >>
    /\ pdf_filename = << >>
    /\ story = << >>
    /\ EditIdle
    /\ SegIdle
    /\ IngIdle
    /\ AppIdle

PdfNext == Concatenate \/ Stats \/ Filename

PdfSpec == PdfInit /\ [][PdfNext]_vars

(***************************************************************************)
(* pdf_generator.py: create_pdf_bytes.  The story is kept as one record    *)
(* for each entry with text: the lines of the entry, the line taken as the *)
(* day header, the body paragraphs and whether a spacer follows.  The      *)
(* title and date paragraphs in front do not depend on the entries.        *)
(***************************************************************************)
MaxRendered == 2

\* .replace('&', '&amp;').replace('<', '&lt;').replace('>', '&gt;') (line 155)
RECURSIVE Escape(_)
Escape(t) ==
    IF t = << >> THEN << >>
    ELSE (CASE t[1] = "&" -> << "&", "a", "m", "p", ";" >>
            [] t[1] = "<" -> << "&", "l", "t", ";" >>
            [] t[1] = ">" -> << "&", "g", "t", ";" >>
            [] OTHER -> << t[1] >>) \o Escape(Tail(t))

\* lines 135-139: the loop over lines from position k on; day_header is None as
\* long as header_at is 0
RECURSIVE HeaderScan(_, _, _, _, _)
HeaderScan(lines, k, day_header, header_at, content_lines) ==
    IF k > Len(lines)
    THEN [day_header |-> day_header, header_at |-> header_at,
          content_lines |-> content_lines]
    ELSE IF StartsWith(Strip(lines[k]), << "D", "a", "y", " " >>) /\ header_at = 0
         THEN HeaderScan(lines, k + 1, Strip(lines[k]), k, content_lines)
         ELSE HeaderScan(lines, k + 1, day_header, header_at,
                         Append(content_lines, lines[k]))

\* lines 146-163: the paragraphs made of content_lines from position k on
RECURSIVE Paragraphs(_, _, _, _)
Paragraphs(content_lines, k, current_paragraph, paragraphs) ==
    IF k > Len(content_lines)
    THEN IF current_paragraph # << >>
         THEN Append(paragraphs, Escape(Join(<< " " >>, current_paragraph)))
         ELSE paragraphs
    ELSE LET line == Strip(content_lines[k])
         IN IF line # << >>
            THEN Paragraphs(content_lines, k + 1, Append(current_paragraph, line),
                            paragraphs)
            ELSE IF current_paragraph # << >>
                 THEN Paragraphs(content_lines, k + 1, << >>,
                          Append(paragraphs,
                                 Escape(Join(<< " " >>, current_paragraph))))
                 ELSE Paragraphs(content_lines, k + 1, << >>, paragraphs)

\* lines 124-167: the loop over sorted_chunks from position k on
RECURSIVE StoryFrom(_, _, _)
StoryFrom(cs, k, flowables) ==
    IF k > Len(cs) THEN flowables
    ELSE LET chunk_text == Strip(cs[k].text)
             lines == SplitLines(chunk_text)
             scan == HeaderScan(lines, 1, << >>, 0, << >>)
         IN StoryFrom(cs, k + 1,
                IF chunk_text # << >>
                THEN Append(flowables,
                            [day |-> cs[k].day,
                             lines |-> lines,
                             header_at |-> scan.header_at,
                             day_header |-> scan.day_header,
                             paragraphs |-> Paragraphs(scan.content_lines, 1,
                                                       << >>, << >>),
                             spacer |-> k < Len(cs)])
                ELSE flowables)

\* lines 108-167: the story built from the entries
create_pdf_story(cs) == StoryFrom(sorted_by_day(cs), 1, << >>)

Render ==
    /\ "render" \notin pdf_done
    /\ pdf_done' = pdf_done \cup { "render" }
    /\ story' = create_pdf_story(pdf_chunks)
    /\ UNCHANGED << pdf_chunks, sorted_chunks, full_text, pdf_stats, pdf_filename >>
    /\ UNCHANGED << editVars, segVars, ingVars, appVars >>

\* texts of entries: a header line as the segmenter leaves it, in the case of
\* the pattern and in lower case; a body with a line "Day x"; a header line of
\* two entries run together; a text without a header line; a blank text
RenderTexts ==
    { << "D", "a", "y", " ", "1", "\n", "x" >>,
      << "d", "a", "y", " ", "1", "\n", "x" >>,
      << "D", "a", "y", " ", "2", "\n", "\n", "D", "a", "y", " ", "x" >>,
      << "x", "\n", "D", "a", "y", " ", "3", "\n", "<" >>,
      << "x", " ", "\n", "x" >>,
      << " " >> }

RenderPool == { [day |-> d, text |-> t] : d \in 1..MaxRendered, t \in RenderTexts }

\* a list of up to MaxRendered entries of RenderPool
RenderInit ==
    /\ pdf_chunks \in SeqsUpTo(RenderPool, MaxRendered)
    /\ pdf_done = {}
    /\ sorted_chunks = << >>
    /\ full_text = << >>
    /\ pdf_stats = << >>
    /\ pdf_filename = << >>
    /\ story = << >>
    /\ EditIdle
    /\ SegIdle
    /\ IngIdle
    /\ AppIdle

RenderNext == Render \/ Concatenate

RenderSpec == RenderInit /\ [][RenderNext]_vars

(***************************************************************************)
(* document_ingestion.py.  The content of a file is what the parsers make  *)
(* of it: its format ("pdf", "docx", or "garbage" for bytes neither parser *)
(* can read) and the texts of its pages or paragraphs.                     *)
(***************************************************************************)
MaxParts == 2

PartPool == { << "a" >>, << " " >> }

ContentPool ==
    { [fmt |-> f, parts |-> ps] : f \in { "pdf", "docx" }, ps \in SeqsUpTo(PartPool, MaxParts) }
    \cup { [fmt |-> "garbage", parts |-> << >>] }

NamePool ==
    { << "a", ".", "p", "d", "f" >>,
      << "a", ".", "P", "D", "F" >>,
      << "a", ".", "P", "d", "f" >>,
      << "a", ".", "d", "o", "c", "x" >>,
      << "A", ".", "D", "O", "C", "X" >>,
      << "a", ".", "d", "o", "c" >>,
      << "a", ".", "t", "x", "t" >>,
      << "a", ".", "p", "d", "f", "x" >>,
      << "a", ".", "p", "d", "f", ".", "t", "x", "t" >>,
      << "p", "d", "f" >>,
      << ".", "p", "d", "f" >>,
      << >> }

\* mutant: the extension compared as it is written
detect_file_type_CaseSensitive(name) ==
    IF EndsWith(name, << ".", "p", "d", "f" >>) THEN "pdf"
    ELSE IF EndsWith(name, << ".", "d", "o", "c", "x" >>) THEN "docx"
    ELSE "unknown"

\* lines 12-28
detect_file_type(name) ==
    IF EndsWith(str_lower(name), << ".", "p", "d", "f" >>) THEN "pdf"
    ELSE IF EndsWith(str_lower(name), << ".", "d", "o", "c", "x" >>) THEN "docx"
    ELSE "unknown"

\* PyPDF2.PdfReader (line 46) and docx.Document (line 84) raise on bytes that are
\* not a file of their format
ReaderRaises(content, fmt) == content.fmt # fmt

\* lines 56-57 and 92-93: the parts that are not blank
NonBlankParts(parts) == SelectSeq(parts, LAMBDA t : Strip(t) # << >>)

\* lines 31-66: every exception is caught and turned into ("", False)
extract_text_from_pdf(content) ==
    IF ReaderRaises(content, "pdf")
    THEN [text |-> << >>, success |-> FALSE, raised |-> FALSE]
    ELSE [text |-> Join(<< "\n", "\n" >>, NonBlankParts(content.parts)),
          success |-> TRUE, raised |-> FALSE]

\* lines 69-102
extract_text_from_docx(content) ==
    IF ReaderRaises(content, "docx")
    THEN [text |-> << >>, success |-> FALSE, raised |-> FALSE]
    ELSE [text |-> Join(<< "\n" >>, NonBlankParts(content.parts)),
          success |-> TRUE, raised |-> FALSE]

\* lines 105-125
extract_document_text(content, name) ==
    LET file_type == detect_file_type(name)
    IN IF file_type = "pdf"
       THEN LET r == extract_text_from_pdf(content)
            IN [text |-> r.text, success |-> r.success, file_type |-> file_type,
                raised |-> r.raised]
       ELSE IF file_type = "docx"
       THEN LET r == extract_text_from_docx(content)
            IN [text |-> r.text, success |-> r.success, file_type |-> file_type,
                raised |-> r.raised]
       ELSE [text |-> << >>, success |-> FALSE, file_type |-> file_type, raised |-> FALSE]

\* lines 129-145: open() or read() raising is caught; an exception out of
\* extract_document_text would be caught as well
extract_document_from_path(readable, content, file_path) ==
    IF readable /\ ~extract_document_text(content, file_path).raised
    THEN extract_document_text(content, file_path)
    ELSE [text |-> << >>, success |-> FALSE, file_type |-> "unknown", raised |-> FALSE]

ExtractDocumentText ==
    /\ ing_pc = "input"
    /\ path_readable
    /\ extracted' = extract_document_text(file_bytes, filename)
    /\ ing_pc' = "bytes"
    /\ UNCHANGED << filename, file_bytes, path_readable >>
    /\ UNCHANGED << editVars, segVars, pdfVars, appVars >>

ExtractDocumentFromPath ==
    /\ ing_pc = "input"
    /\ extracted' = extract_document_from_path(path_readable, file_bytes, filename)
    /\ ing_pc' = "path"
    /\ UNCHANGED << filename, file_bytes, path_readable >>
    /\ UNCHANGED << editVars, segVars, pdfVars, appVars >>

\* a name of NamePool, a content of ContentPool, and whether the path can be read
IngestInit ==
    /\ filename \in NamePool
    /\ file_bytes \in ContentPool
    /\ path_readable \in BOOLEAN
    /\ ing_pc = "input"
    /\ extracted = << >>
    /\ EditIdle
    /\ SegIdle
    /\ PdfIdle
    /\ AppIdle

IngestNext == ExtractDocumentText \/ ExtractDocumentFromPath

IngestSpec == IngestInit /\ [][IngestNext]_vars

(***************************************************************************)
(* app.py: main.  Every action is one run of the script, started by the    *)
(* widget the user touched; the session state is what main keeps from one  *)
(* run to the next.  st.session_state.processing is set and cleared within *)
(* one run and is FALSE between runs.                                      *)
(***************************************************************************)
\* the files a user uploads (the uploader takes .pdf and .docx only): a journal
\* of one entry, a journal of two entries with other numbers, a file that cannot
\* be parsed, and a text of two pages without a header line
AppFiles ==
    { [name |-> << "a", ".", "d", "o", "c", "x" >>,
       content |-> [fmt |-> "docx", parts |-> << << "D", "a", "y", " ", "1" >>, << "a" >> >>]],
      [name |-> << "b", ".", "d", "o", "c", "x" >>,
       content |-> [fmt |-> "docx",
                    parts |-> << << "D", "a", "y", " ", "2" >>, << "D", "a", "y", " ", "3" >> >>]],
      [name |-> << "c", ".", "p", "d", "f" >>,
       content |-> [fmt |-> "garbage", parts |-> << >>]],
      [name |-> << "d", ".", "p", "d", "f" >>,
       content |-> [fmt |-> "pdf", parts |-> << << "a" >>, << "a" >> >>]] }

\* line 140: the Begin Processing button is not disabled
BeginEnabled == st_api_key /\ uploaded_file # NoFile

\* line 145: the Edit with AI button is shown
EditOffered == st_chunks # << >> /\ ~st_editing_complete

\* line 158: the Retry AI Editing button is shown
RetryOffered == st_chunks # << >> /\ st_edited_chunks # << >> /\ ~st_editing_complete

\* line 170: the Download PDF button is shown
DownloadOffered == st_editing_complete /\ st_edited_chunks # << >>

\* lines 86-89 and 106-109: the chunks are reset when there are any
ResetChunks ==
    IF st_chunks # << >>
    THEN /\ st_chunks' = << >>
         /\ st_edited_chunks' = << >>
         /\ st_editing_complete' = FALSE
    ELSE UNCHANGED << st_chunks, st_edited_chunks, st_editing_complete >>

\* lines 46-56
EnterApiKey ==
    /\ ~st_api_key
    /\ st_api_key' = TRUE
    /\ UNCHANGED << uploaded_file, st_chunks, st_edited_chunks, st_editing_complete,
                    st_chunking_method, st_paragraphs_per_chunk, last_action, last_begin >>
    /\ UNCHANGED << editVars, segVars, pdfVars, ingVars >>

\* lines 61-66: another file, or none, in the uploader
Upload(f) ==
    /\ f # uploaded_file
    /\ uploaded_file' = f
    /\ UNCHANGED << st_api_key, st_chunks, st_edited_chunks, st_editing_complete,
                    st_chunking_method, st_paragraphs_per_chunk, last_action, last_begin >>
    /\ UNCHANGED << editVars, segVars, pdfVars, ingVars >>

\* lines 73-89
SelectMethod(m) ==
    /\ m # st_chunking_method
    /\ st_chunking_method' = m
    /\ ResetChunks
    /\ UNCHANGED << st_api_key, uploaded_file, st_paragraphs_per_chunk, last_action,
                    last_begin >>
    /\ UNCHANGED << editVars, segVars, pdfVars, ingVars >>

\* lines 92-109: the field is there for the paragraph method only, min_value = 1
SetParagraphs(n) ==
    /\ st_chunking_method = "paragraph"
    /\ n # st_paragraphs_per_chunk
    /\ st_paragraphs_per_chunk' = n
    /\ ResetChunks
    /\ UNCHANGED << st_api_key, uploaded_file, st_chunking_method, last_action, last_begin >>
    /\ UNCHANGED << editVars, segVars, pdfVars, ingVars >>

\* lines 307-409: the Begin Processing handler
BeginProcessing ==
    /\ BeginEnabled
    /\ last_action' = "begin"
    /\ LET r == extract_document_text(uploaded_file.content, uploaded_file.name)
           c == chunk_document_text(r.text, st_chunking_method, st_paragraphs_per_chunk)
       IN IF ~r.success
          THEN /\ last_begin' = "extract_failed"
               /\ UNCHANGED st_chunks
          ELSE IF c.raised
          THEN /\ last_begin' = "raised"
               /\ UNCHANGED st_chunks
          ELSE /\ st_chunks' = c.chunks
               /\ last_begin' = IF Len(c.chunks) = 0 THEN "no_entries" ELSE "ok"
    /\ UNCHANGED << st_api_key, uploaded_file, st_edited_chunks, st_editing_complete,
                    st_chunking_method, st_paragraphs_per_chunk >>
    /\ UNCHANGED << editVars, segVars, pdfVars, ingVars >>

\* what process_chunks_in_batches returns for the list cs when the entries at
\* the positions of ok end with a successful oracle call: the entry with the
\* oracle's text and edited, or with its own text and not edited
EditedList(cs, ok) ==
    [k \in 1..Len(cs) |->
        OutEntry(cs[k].day, IF k \in ok THEN << "x" >> ELSE cs[k].text, k \in ok)]

\* lines 412-490: the handler of Edit with AI and of Retry AI Editing; without a
\* key create_openai_client raises and the except branch leaves the session as
\* it is
EditWithAI(ok) ==
    /\ EditOffered \/ RetryOffered
    /\ last_action' = "edit"
    /\ IF st_api_key
       THEN /\ st_edited_chunks' = EditedList(st_chunks, ok)
            /\ st_editing_complete' = TRUE
       ELSE UNCHANGED << st_edited_chunks, st_editing_complete >>
    /\ UNCHANGED << st_api_key, uploaded_file, st_chunks, st_chunking_method,
                    st_paragraphs_per_chunk, last_begin >>
    /\ UNCHANGED << editVars, segVars, pdfVars, ingVars >>

AppInit ==
    /\ AppIdle
    /\ EditIdle
    /\ SegIdle
    /\ PdfIdle
    /\ IngIdle

AppNext ==
    \/ EnterApiKey
    \/ \E f \in AppFiles \cup { NoFile } : Upload(f)
    \/ \E m \in { "daily", "paragraph" } : SelectMethod(m)
    \/ \E n \in 1..MaxWindow : SetParagraphs(n)
    \/ BeginProcessing
    \/ \E ok \in SUBSET (1..Len(st_chunks)) : EditWithAI(ok)

AppSpec == AppInit /\ [][AppNext]_vars

\* the code runs on: every enabled step is eventually taken (an oracle call
\* returns or raises, the loops are sequential)
FairSpec == Spec /\ WF_vars(Next)

(***************************************************************************)
(* Reading the trace.                                                      *)
(***************************************************************************)
\* positions in the trace of the oracle calls made for input entry idx
CallsOf(idx) == { p \in 1..Len(trace) : trace[p].ev = "call" /\ trace[p].idx = idx }

\* positions in the trace of the progress_callback calls
ProgressAt == { p \in 1..Len(trace) : trace[p].ev = "progress" }

\* number of progress_callback calls before trace position p
ProgressBefore(p) == Cardinality({ q \in ProgressAt : q < p })

\* ceil(n / batch_size)
CeilBatches(n) == IF n % batch_size = 0 THEN n \div batch_size ELSE (n \div batch_size) + 1

Returned == pc = "done"

(***************************************************************************)
(* C1: process_chunks_in_batches returns a list as long as its input whose *)
(* k-th element carries the day of the k-th input entry, for every pattern *)
(* of oracle successes and failures.                                       *)
(***************************************************************************)
C1_OrderPreserved ==
    Returned =>
        /\ Len(result) = Len(input0)
        /\ \A k \in 1..Len(result) : result[k].day = input0[k].day

\* two batches, entries with different days, and an entry that was retried
C1_Witness ==
    /\ Returned
    /\ Len(result) > batch_size
    /\ \E k, m \in 1..Len(input0) : input0[k].day # input0[m].day
    /\ \E k \in 1..Len(input0) : Cardinality(CallsOf(k)) > 1
    /\ \E k \in 1..Len(result) : ~result[k].edited

(***************************************************************************)
(* C2: an entry whose oracle attempts all failed comes out with its        *)
(* original text, which is not empty, and edited = FALSE.                  *)
(***************************************************************************)
AllAttemptsFailed(k) ==
    /\ CallsOf(k) # {}
    /\ \A p \in CallsOf(k) : ~trace[p].ok

C2_FailureKeepsOriginal ==
    Returned =>
        \A k \in 1..Len(result) :
            AllAttemptsFailed(k) =>
                /\ result[k].text = input0[k].text
                /\ result[k].text # ""
                /\ result[k].edited = FALSE

C2_Witness ==
    /\ Returned
    /\ \E k \in 1..Len(result) :
           /\ AllAttemptsFailed(k)
           /\ Cardinality(CallsOf(k)) = max_retries + 1

(***************************************************************************)
(* C3: when the oracle fails k < max_retries times on an entry and then    *)
(* succeeds, the entry comes out edited with the text of the successful    *)
(* call, and exactly k + 1 calls were made for it.                         *)
(***************************************************************************)
FailsThenSucceeds(idx, k) ==
    /\ \E p \in CallsOf(idx) : trace[p].attempt = k /\ trace[p].ok
    /\ \A p \in CallsOf(idx) : trace[p].attempt < k => ~trace[p].ok

C3_RetryBound ==
    Returned =>
        \A idx \in 1..Len(input0) : \A k \in 0..(max_retries - 1) :
            FailsThenSucceeds(idx, k) =>
                /\ result[idx].edited = TRUE
                /\ \E p \in CallsOf(idx) :
                       /\ trace[p].attempt = k
                       /\ trace[p].ok
                       /\ result[idx].text = trace[p].ret
                /\ Cardinality(CallsOf(idx)) = k + 1

C3_Witness ==
    /\ Returned
    /\ \E idx \in 1..Len(input0) :
           /\ FailsThenSucceeds(idx, max_retries - 1)
           /\ Cardinality(CallsOf(idx)) = max_retries

(***************************************************************************)
(* C4: between a failed attempt number a < max_retries on an entry and the *)
(* next attempt on that entry the orchestrator waits 2^a time units.       *)
(***************************************************************************)
C4_BackoffBetweenAttempts ==
    \A p, q \in 1..Len(trace) :
        ( /\ trace[p].ev = "call"
          /\ trace[q].ev = "call"
          /\ trace[p].idx = trace[q].idx
          /\ trace[q].attempt = trace[p].attempt + 1 )
        => trace[q].slept - trace[p].slept >= Pow2(trace[p].attempt)

(***************************************************************************)
(* C5: once the run has its client it ends, and at its end every entry of  *)
(* every batch has had at least one oracle call and has exactly one output *)
(* entry, whatever entries exhausted their retries.                        *)
(***************************************************************************)
AllEntriesProcessed ==
    /\ Len(result) = Len(input0)
    /\ \A k \in 1..Len(input0) : CallsOf(k) # {}

C5_NoEntrySkipped == (pc = "batch") ~> (Returned /\ AllEntriesProcessed)

\* an entry exhausted its retries and a later entry was still processed
C5_Witness ==
    /\ Returned
    /\ AllEntriesProcessed
    /\ \E k, m \in 1..Len(input0) :
           /\ k < m
           /\ AllAttemptsFailed(k)
           /\ Cardinality(CallsOf(k)) = max_retries + 1

(***************************************************************************)
(* C6: the callback gets the batch-start events 1..t in ascending order,   *)
(* each carrying t = ceil(N / batch_size); every oracle call for the entry *)
(* at 0-based index x comes after the event of batch (x div batch_size)+1  *)
(* and before the event of the next batch; at the end there are t events.  *)
(***************************************************************************)
C6_BatchStartEvents ==
    progress_callback =>
        /\ \A p \in ProgressAt :
               /\ trace[p].b = ProgressBefore(p) + 1
               /\ trace[p].t = CeilBatches(Len(input0))
               /\ trace[p].b <= trace[p].t
        /\ \A p \in 1..Len(trace) :
               trace[p].ev = "call" =>
                   ProgressBefore(p) = ((trace[p].idx - 1) \div batch_size) + 1
        /\ (Returned => Cardinality(ProgressAt) = CeilBatches(Len(input0)))

C6_Witness ==
    /\ Returned
    /\ progress_callback
    /\ Len(input0) > batch_size
    /\ Cardinality(ProgressAt) = 2

(***************************************************************************)
(* C7 as stated: after the last entry of a non-empty input the orchestrator *)
(* sends a terminal completion event to the callback, the last event it    *)
(* receives.                                                               *)
(***************************************************************************)
C7_CompletionEventToReporter ==
    (Returned /\ progress_callback /\ input0 # << >>) =>
        \E p \in 1..Len(trace) :
            /\ trace[p].ev = "complete"
            /\ \A q \in 1..Len(trace) : q <= p

(***************************************************************************)
(* C7 amended: process_chunks_in_batches sends only batch-start events to  *)
(* the callback, the last of them being batch t of t; the completion       *)
(* status is written by main after the call has returned, after every      *)
(* batch-start status, and only main's result summary follows it.          *)
(***************************************************************************)
C7_CompletionByCaller ==
    (Returned /\ caller = "main" /\ input0 # << >>) =>
        /\ \A p \in 1..Len(trace) : trace[p].ev \in {"call", "progress"}
        /\ \E p \in ProgressAt :
               /\ trace[p].b = trace[p].t
               /\ \A q \in ProgressAt : q <= p
        /\ Len(status) >= 2
        /\ status[Len(status) - 1] = "Done - generating PDF"
        /\ status[Len(status)] \in {"success", "warning"}
        /\ \A k \in 1..(Len(status) - 2) : status[k] # "Done - generating PDF"
        /\ editing_complete

C7_Witness ==
    /\ Returned
    /\ caller = "main"
    /\ Len(input0) > batch_size
    /\ status[Len(status) - 1] = "Done - generating PDF"

(***************************************************************************)
(* C8: on an empty list process_chunks_in_batches returns an empty list,   *)
(* makes no oracle call, creates no client and sends no batch-start event. *)
(***************************************************************************)
C8_EmptyInput ==
    input0 = << >> =>
        /\ pc \in {"call", "done"}
        /\ result = << >>
        /\ trace = << >>
        /\ client = FALSE

C8_Witness ==
    /\ input0 = << >>
    /\ Returned
    /\ ~api_key

Parsed == seg_pc = "parsed"

(***************************************************************************)
(* The header rule in words: after the leading whitespace (a characters)   *)
(* the word "Day" in any letter case, whitespace up to offset b, and the   *)
(* whole run of decimal digits up to offset c.                             *)
(***************************************************************************)
LeadingOffsets(line) ==
    { a \in 0..(Len(line) - 3) :
          /\ \A k \in 1..a : IsSpace(line[k])
          /\ Lower(line[a + 1]) = "d"
          /\ Lower(line[a + 2]) = "a"
          /\ Lower(line[a + 3]) = "y" }

SeparatorOffsets(line, a) ==
    { b \in (a + 4)..Len(line) : \A k \in (a + 4)..b : IsSpace(line[k]) }

DigitOffsets(line, b) ==
    { c \in (b + 1)..Len(line) :
          /\ \A k \in (b + 1)..c : IsDigit(line[k])
          /\ (c = Len(line) \/ ~IsDigit(line[c + 1])) }

HeaderParts(line) ==
    UNION { UNION { { << a, b, c >> : c \in DigitOffsets(line, b) }
                    : b \in SeparatorOffsets(line, a) }
            : a \in LeadingOffsets(line) }

\* the digits are followed by nothing or by a character that is no letter, digit
\* or underscore
EndsAtWordBoundary(line, p) == p[3] = Len(line) \/ ~IsWordChar(line[p[3] + 1])

(***************************************************************************)
(* C9 as stated: a line is a header line if and only if it is, after       *)
(* leading whitespace, "Day" in any case, whitespace, digits and then any  *)
(* characters whatsoever; the id is the value of the digits.               *)
(***************************************************************************)
C9_AnyTrailingCharacters ==
    Parsed =>
        /\ (entries # << >>) <=> (HeaderParts(text) # {})
        /\ entries # << >> =>
               \E p \in HeaderParts(text) :
                   entries[1].day = ParseInt(SubSeq(text, p[2] + 1, p[3]))

(***************************************************************************)
(* C9 amended: ... digits, then the end of the line or a character that is *)
(* no letter, digit or underscore, then any characters; a letter, digit or *)
(* underscore directly after the digits makes the line no header line.     *)
(* The id is the value of the digits.                                      *)
(***************************************************************************)
C9_WordBoundaryAfterDigits ==
    Parsed =>
        LET hs == { p \in HeaderParts(text) : EndsAtWordBoundary(text, p) }
        IN /\ (entries # << >>) <=> (hs # {})
           /\ entries # << >> =>
                  /\ Len(entries) = 1
                  /\ \E p \in hs : entries[1].day = ParseInt(SubSeq(text, p[2] + 1, p[3]))

\* a header in lower case after leading whitespace, with a title after its number
C9_Witness ==
    /\ Parsed
    /\ entries # << >>
    /\ entries[1].day = 3
    /\ text[1] = " "
    /\ text[2] = "d"
    /\ Len(text) > 8

(***************************************************************************)
(* C10: the lines before the first header line are in no entry (every      *)
(* entry is made of the text from the first header line on, and the result *)
(* is that of the text without those lines), and a text without a header   *)
(* line gives the empty list.                                              *)
(***************************************************************************)
HeaderLines(ls) == { k \in 1..Len(ls) : DAY_RE_match(ls[k]).matched }

IsPartOf(part, whole) ==
    \E o \in 0..(Len(whole) - Len(part)) : SubSeq(whole, o + 1, o + Len(part)) = part

C10_PreambleDiscarded ==
    Parsed =>
        LET ls == SplitLines(text)
            hs == HeaderLines(ls)
        IN IF hs = {}
           THEN entries = << >>
           ELSE LET h == CHOOSE k \in hs : \A m \in hs : k <= m
                    rest == JoinLines(SubSeq(ls, h, Len(ls)))
                IN /\ entries # << >>
                   /\ \A k \in 1..Len(entries) : IsPartOf(entries[k].text, rest)
                   /\ IsPartOf(Strip(ls[h]), entries[1].text)
                   /\ SubSeq(entries[1].text, 1, Len(Strip(ls[h]))) = Strip(ls[h])
                   /\ entries = parse_journal_entries(rest)

\* a text that starts with a line that is no header and is not empty, then a header
C10_Witness ==
    /\ Parsed
    /\ entries # << >>
    /\ LET ls == SplitLines(text)
       IN /\ Len(ls) >= 3
          /\ ~DAY_RE_match(ls[1]).matched
          /\ Strip(ls[1]) # << >>
          /\ DAY_RE_match(ls[2]).matched

\* a text of non-empty lines none of which is a header
C10_WitnessNoHeader ==
    /\ Parsed
    /\ entries = << >>
    /\ Len(text) >= 3
    /\ HeaderLines(SplitLines(text)) = {}

(***************************************************************************)
(* The header lines of a text in the order they occur, and the lines that  *)
(* belong to the k-th of them: from it up to the line before the next      *)
(* header line, or to the end of the text.                                 *)
(***************************************************************************)
NthHeader(ls, k) ==
    CHOOSE h \in HeaderLines(ls) : Cardinality({ m \in HeaderLines(ls) : m < h }) = k - 1

SectionEnd(ls, k) ==
    IF k < Cardinality(HeaderLines(ls)) THEN NthHeader(ls, k + 1) - 1 ELSE Len(ls)

SectionLines(ls, k) == SubSeq(ls, NthHeader(ls, k), SectionEnd(ls, k))

NoOuterSpace(t) == t # << >> /\ ~IsSpace(t[1]) /\ ~IsSpace(t[Len(t)])

(***************************************************************************)
(* C11 as stated: every entry's text has no leading or trailing whitespace *)
(* and its lines are the header line that opened it followed by exactly    *)
(* the lines up to the next header line; its id is the header's number.    *)
(***************************************************************************)
C11_ExactlyTheLines ==
    Parsed =>
        LET ls == SplitLines(text)
        IN \A k \in 1..Len(entries) :
               /\ k <= Cardinality(HeaderLines(ls))
               /\ NoOuterSpace(entries[k].text)
               /\ SplitLines(entries[k].text) = SectionLines(ls, k)
               /\ entries[k].day = ParseInt(DAY_RE_match(ls[NthHeader(ls, k)]).group1)

(***************************************************************************)
(* C11 amended: every entry's text is the header line that opened it and   *)
(* the lines up to the next header line, joined by line breaks, with the   *)
(* leading and trailing whitespace of the whole removed (the whitespace in *)
(* front of the header line and the blank lines at the end are not in the  *)
(* text); its id is the header's number.                                   *)
(***************************************************************************)
C11_SectionStripped ==
    Parsed =>
        LET ls == SplitLines(text)
        IN \A k \in 1..Len(entries) :
               /\ k <= Cardinality(HeaderLines(ls))
               /\ NoOuterSpace(entries[k].text)
               /\ LET sec == JoinLines(SectionLines(ls, k))
                  IN \E a, b \in 0..Len(sec) :
                         /\ a + b + Len(entries[k].text) = Len(sec)
                         /\ \A m \in 1..a : IsSpace(sec[m])
                         /\ \A m \in (Len(sec) - b + 1)..Len(sec) : IsSpace(sec[m])
                         /\ SubSeq(sec, a + 1, Len(sec) - b) = entries[k].text
               /\ entries[k].day = ParseInt(DAY_RE_match(ls[NthHeader(ls, k)]).group1)

\* an entry with a body line, opened by a header with whitespace in front of it and
\* closed by a blank line and another header
C11_Witness ==
    /\ Parsed
    /\ Len(entries) = 2
    /\ entries[1].day = 12
    /\ LET ls == SplitLines(text)
       IN /\ Len(ls) = 4
          /\ ls[1] # << >>
          /\ ls[1][1] = " "
          /\ ls[2] = << "x" >>
          /\ ls[3] = << >>

(***************************************************************************)
(* C12: there is exactly one entry per header line, in the order of the    *)
(* header lines, each with the number of its header, also when two header  *)
(* lines carry the same number.                                            *)
(***************************************************************************)
C12_OneEntryPerHeader ==
    Parsed =>
        LET ls == SplitLines(text)
        IN /\ Len(entries) = Cardinality(HeaderLines(ls))
           /\ \A k \in 1..Len(entries) :
                  entries[k].day = ParseInt(DAY_RE_match(ls[NthHeader(ls, k)]).group1)

\* two header lines with the same number, a third one between them
C12_Witness ==
    /\ Parsed
    /\ Len(entries) = 3
    /\ entries[1].day = 1
    /\ entries[2].day = 12
    /\ entries[3].day = 1

(***************************************************************************)
(* Windowed mode.  The paragraphs of a text are its maximal runs of        *)
(* non-blank lines; a line is blank when it holds nothing but whitespace.  *)
(***************************************************************************)
Windowed == method = "paragraph"

IsBlankLine(line) == \A k \in 1..Len(line) : IsSpace(line[k])

\* the pairs << a, b >> such that lines a..b are a maximal run of non-blank lines
Runs(ls) ==
    { ab \in (1..Len(ls)) \X (1..Len(ls)) :
        /\ ab[1] <= ab[2]
        /\ \A k \in ab[1]..ab[2] : ~IsBlankLine(ls[k])
        /\ ab[1] = 1 \/ IsBlankLine(ls[ab[1] - 1])
        /\ ab[2] = Len(ls) \/ IsBlankLine(ls[ab[2] + 1]) }

NthRun(ls, n) == CHOOSE ab \in Runs(ls) : Cardinality({ cd \in Runs(ls) : cd[1] < ab[1] }) = n - 1

CeilDiv(a, b) == (a + b - 1) \div b

\* the run's lines as they are, joined by one space
RunJoined(ls, n) ==
    LET ab == NthRun(ls, n)
    IN Join(<< " " >>, [k \in 1..(ab[2] - ab[1] + 1) |-> ls[ab[1] + k - 1]])

\* the run's lines, each without its leading and trailing whitespace, joined by
\* one space
RunJoinedTrimmed(ls, n) ==
    LET ab == NthRun(ls, n)
    IN Join(<< " " >>, [k \in 1..(ab[2] - ab[1] + 1) |-> Strip(ls[ab[1] + k - 1])])

(***************************************************************************)
(* C13 as stated: with a window size w >= 1 and P paragraphs, each the     *)
(* lines of a run joined by one space, there are ceil(P/w) entries with    *)
(* the ids 1..ceil(P/w), and the text of entry k is the paragraphs         *)
(* (k-1)w+1 .. min(kw, P) joined by a blank line.                          *)
(***************************************************************************)
C13_WindowsOfParagraphs ==
    (Windowed /\ seg_pc # "input" /\ paragraphs_per_chunk >= 1) =>
        LET ls == SplitLines(text)
            P == Cardinality(Runs(ls))
            w == paragraphs_per_chunk
        IN /\ seg_pc = "parsed"
           /\ Len(entries) = CeilDiv(P, w)
           /\ \A k \in 1..Len(entries) :
                  /\ entries[k].day = k
                  /\ entries[k].text =
                         Join(<< "\n", "\n" >>,
                              [n \in 1..(Min(k * w, P) - (k - 1) * w) |->
                                   RunJoined(ls, (k - 1) * w + n)])

(***************************************************************************)
(* C13 amended: the same, where a paragraph is the lines of a run, each    *)
(* without its leading and trailing whitespace, joined by one space.       *)
(***************************************************************************)
C13_WindowsOfTrimmedParagraphs ==
    (Windowed /\ seg_pc # "input" /\ paragraphs_per_chunk >= 1) =>
        LET ls == SplitLines(text)
            P == Cardinality(Runs(ls))
            w == paragraphs_per_chunk
        IN /\ seg_pc = "parsed"
           /\ Len(entries) = CeilDiv(P, w)
           /\ \A k \in 1..Len(entries) :
                  /\ entries[k].day = k
                  /\ entries[k].text =
                         Join(<< "\n", "\n" >>,
                              [n \in 1..(Min(k * w, P) - (k - 1) * w) |->
                                   RunJoinedTrimmed(ls, (k - 1) * w + n)])

\* three paragraphs, the last one of two lines and not followed by a blank line,
\* in windows of two: a full window and a short one
C13_Witness ==
    /\ Windowed
    /\ seg_pc = "parsed"
    /\ paragraphs_per_chunk = 2
    /\ Cardinality(Runs(SplitLines(text))) = 3
    /\ Len(entries) = 2
    /\ entries[2].text = << "a", " ", "D", "a", "y", " ", "1" >>

(***************************************************************************)
(* C14: for the empty text and for a text of nothing but whitespace and    *)
(* line breaks the segmenter returns the empty list, in both modes.        *)
(***************************************************************************)
C14_BlankTextNoEntries ==
    (seg_pc # "input" /\ \A k \in 1..Len(text) : text[k] \in { " ", "\n" }) =>
        seg_pc = "parsed" /\ entries = << >>

\* a text of spaces and line breaks, segmented in windowed mode
C14_Witness ==
    /\ Windowed
    /\ seg_pc = "parsed"
    /\ text = << " ", "\n", "\n", " " >>

\* the empty text, segmented in tagged mode
C14_WitnessEmptyTagged ==
    /\ ~Windowed
    /\ seg_pc = "parsed"
    /\ text = << >>

(***************************************************************************)
(* C15: windowed segmentation with a window size below 1 raises, for every *)
(* text, and never returns a list.                                         *)
(***************************************************************************)
C15_WindowBelowOneRaises ==
    (Windowed /\ seg_pc # "input" /\ paragraphs_per_chunk < 1) => seg_pc = "raised"

(***************************************************************************)
(* Reassembly.                                                             *)
(***************************************************************************)
Concatenated == "concatenate" \in pdf_done

OfDay(cs, d) == SelectSeq(cs, LAMBDA c : c.day = d)

\* the entries of day d, then of day d + 1, ... each group in the order of cs
RECURSIVE ByDayFrom(_, _)
ByDayFrom(cs, d) == IF d > MaxDay THEN << >> ELSE OfDay(cs, d) \o ByDayFrom(cs, d + 1)

DistinctDays(cs) == \A a, b \in 1..Len(cs) : a # b => cs[a].day # cs[b].day

(***************************************************************************)
(* C17: the entries are reassembled by ascending id, entries of the same   *)
(* id in the order they had in the input; with distinct ids every          *)
(* permutation of the input gives the same text.                           *)
(***************************************************************************)
C17_StableOrderById ==
    (Concatenated /\ pdf_chunks # << >>) =>
        /\ sorted_chunks = ByDayFrom(pdf_chunks, 1)
        /\ DistinctDays(pdf_chunks) =>
               \A p \in Permutations(1..Len(pdf_chunks)) :
                   concatenate_chunks([k \in 1..Len(pdf_chunks) |-> pdf_chunks[p[k]]]) = full_text

\* an entry of day 2 that arrived before two entries of day 1
C17_Witness ==
    /\ Concatenated
    /\ Len(pdf_chunks) = 3
    /\ pdf_chunks[1].day = 2
    /\ pdf_chunks[2].day = 1
    /\ pdf_chunks[3].day = 1
    /\ pdf_chunks[2].text # pdf_chunks[3].text
    /\ sorted_chunks = << pdf_chunks[2], pdf_chunks[3], pdf_chunks[1] >>

\* three entries of distinct days that arrived in descending order
C17_WitnessPermuted ==
    /\ Concatenated
    /\ Len(pdf_chunks) = 3
    /\ pdf_chunks[1].day = 3
    /\ pdf_chunks[2].day = 2
    /\ pdf_chunks[3].day = 1
    /\ full_text # << >>

\* the trimmed texts of the entries that are not empty once trimmed, by ascending
\* id and, within an id, in input order
KeptParts(cs) ==
    LET trimmed == [k \in 1..Len(cs) |-> Strip(ByDayFrom(cs, 1)[k].text)]
    IN SelectSeq(trimmed, LAMBDA t : t # << >>)

RECURSIVE PartOffset(_, _)
PartOffset(parts, k) ==
    IF k = 1 THEN 0 ELSE PartOffset(parts, k - 1) + Len(parts[k - 1]) + 4

(***************************************************************************)
(* C18: the result is the kept parts in order, every two consecutive ones  *)
(* with exactly four line breaks between them, nothing in front of the     *)
(* first and nothing behind the last; it is empty when no part is kept.    *)
(***************************************************************************)
C18_FourLineBreaksBetween ==
    Concatenated =>
        LET parts == KeptParts(pdf_chunks)
            n == Len(parts)
        IN IF n = 0 THEN full_text = << >>
           ELSE /\ Len(full_text) = PartOffset(parts, n) + Len(parts[n])
                /\ \A k \in 1..n :
                       SubSeq(full_text, PartOffset(parts, k) + 1,
                              PartOffset(parts, k) + Len(parts[k])) = parts[k]
                /\ \A k \in 1..(n - 1) :
                       \A m \in 1..4 :
                           full_text[PartOffset(parts, k) + Len(parts[k]) + m] = "\n"

\* two kept parts that need trimming and an entry of whitespace between them
C18_Witness ==
    /\ Concatenated
    /\ Len(pdf_chunks) = 3
    /\ pdf_chunks[2].text = << " " >>
    /\ pdf_chunks[2].day = 2
    /\ full_text = << "B", " ", "c", "\n", "\n", "\n", "\n", "A" >>

\* entries of whitespace only
C18_WitnessNothingKept ==
    /\ Concatenated
    /\ Len(pdf_chunks) = 2
    /\ full_text = << >>

Counted == "stats" \in pdf_done

\* a word ends at a character that is not whitespace and is the last one or has
\* whitespace behind it
WordEnds(t) == { k \in 1..Len(t) : ~IsSpace(t[k]) /\ (k = Len(t) \/ IsSpace(t[k + 1])) }

RECURSIVE WordsFrom(_, _)
WordsFrom(cs, k) ==
    IF k > Len(cs) THEN 0 ELSE Cardinality(WordEnds(cs[k].text)) + WordsFrom(cs, k + 1)

RECURSIVE CharsFrom(_, _)
CharsFrom(cs, k) == IF k > Len(cs) THEN 0 ELSE Len(cs[k].text) + CharsFrom(cs, k + 1)

StatsOf(cs) ==
    [entries |-> Len(cs),
     words |-> WordsFrom(cs, 1),
     characters |-> CharsFrom(cs, 1),
     estimated_pages |-> IF WordsFrom(cs, 1) \div 250 > 1 THEN WordsFrom(cs, 1) \div 250 ELSE 1]

(***************************************************************************)
(* C19: for every list, the empty one included, get_pdf_stats returns the  *)
(* four fields: the number of entries, the number of words, the number of  *)
(* characters and max(1, words div 250) estimated pages.                   *)
(***************************************************************************)
C19_AllFourFields ==
    Counted => pdf_stats = StatsOf(pdf_chunks)

Named == "filename" \in pdf_done

DaysOf(cs) == { cs[k].day : k \in 1..Len(cs) }

MinDay(cs) == CHOOSE d \in DaysOf(cs) : \A e \in DaysOf(cs) : d <= e

MaxDayOf(cs) == CHOOSE d \in DaysOf(cs) : \A e \in DaysOf(cs) : d >= e

(***************************************************************************)
(* C20: the name is a function of the least and the greatest id alone: the *)
(* one value when they are equal, the least and then the greatest          *)
(* otherwise.                                                              *)
(***************************************************************************)
C20_NameFromMinAndMax ==
    (Named /\ pdf_chunks # << >>) =>
        pdf_filename =
            IF MinDay(pdf_chunks) = MaxDayOf(pdf_chunks)
            THEN << "enhanced_journal_day_", MinDay(pdf_chunks), ".pdf" >>
            ELSE << "enhanced_journal_days_", MinDay(pdf_chunks), "-",
                    MaxDayOf(pdf_chunks), ".pdf" >>

\* the greatest id first, the least in the middle
C20_Witness ==
    /\ Named
    /\ Len(pdf_chunks) = 3
    /\ pdf_chunks[1].day = 3
    /\ pdf_chunks[2].day = 1
    /\ pdf_chunks[3].day = 2
    /\ pdf_filename = << "enhanced_journal_days_", 1, "-", 3, ".pdf" >>

\* three entries of one id
C20_WitnessOneDay ==
    /\ Named
    /\ Len(pdf_chunks) = 3
    /\ pdf_filename = << "enhanced_journal_day_", 2, ".pdf" >>

(***************************************************************************)
(* C21: the list passed to process_chunks_in_batches is the same before,   *)
(* during and after the call, whatever the oracle does; every entry        *)
(* returned is a record of its own with the id of the input entry, a text  *)
(* and an edited flag.                                                     *)
(***************************************************************************)
C21_InputUnchanged ==
    /\ chunks = input0
    /\ Returned =>
           \A k \in 1..Len(result) :
               /\ DOMAIN result[k] = { "day", "text", "edited" }
               /\ result[k].day = input0[k].day
               /\ result[k].edited \in BOOLEAN
               /\ result[k].text \in { input0[k].text } \cup OracleTexts

\* a run over two batches in which one entry got a new text and another kept its own
C21_Witness ==
    /\ Returned
    /\ Len(input0) > batch_size
    /\ \E k \in 1..Len(result) : result[k].edited /\ result[k].text # input0[k].text
    /\ \E k \in 1..Len(result) : ~result[k].edited

(***************************************************************************)
(* C25: what comes out for the entry at index k, and the number of oracle  *)
(* calls made for it, is determined by that entry and the outcomes of its  *)
(* own calls: the calls are the attempts 0, 1, ... up to the first one     *)
(* that succeeds or to attempt max_retries; the entry is edited with the   *)
(* text of the call that succeeded, or keeps its text when none did.       *)
(* Nothing about the other entries enters.                                 *)
(***************************************************************************)
C25_OwnOutcomesOnly ==
    Returned =>
        \A k \in 1..Len(result) :
            LET n == Cardinality(CallsOf(k))
                oks == { p \in CallsOf(k) : trace[p].ok }
            IN /\ { trace[p].attempt : p \in CallsOf(k) } = 0..(n - 1)
               /\ \A p \in CallsOf(k) : trace[p].text = input0[k].text
               /\ IF oks = {}
                  THEN /\ n = max_retries + 1
                       /\ result[k] = OutEntry(input0[k].day, input0[k].text, FALSE)
                  ELSE \E p \in oks :
                           /\ oks = { p }
                           /\ trace[p].attempt = n - 1
                           /\ result[k] = OutEntry(input0[k].day, trace[p].ret, TRUE)

\* an entry that succeeded at its third attempt, followed in the same batch by an
\* entry that succeeded at its second, and an entry that succeeded at once
C25_Witness ==
    /\ Returned
    /\ Len(result) >= 3
    /\ \E k \in 1..(Len(result) - 1) :
           /\ k % batch_size # 0
           /\ Cardinality(CallsOf(k)) = 3
           /\ Cardinality(CallsOf(k + 1)) = 2
           /\ result[k].edited
           /\ result[k + 1].edited
    /\ \E k \in 1..Len(result) : Cardinality(CallsOf(k)) = 1

(***************************************************************************)
(* C29: every oracle call for an entry, the first and every retry, gets    *)
(* the text the entry had in the input and the one system prompt of the    *)
(* run.                                                                    *)
(***************************************************************************)
C29_SameArgumentsOnRetry ==
    \A p \in 1..Len(trace) :
        trace[p].ev = "call" =>
            /\ trace[p].idx \in 1..Len(input0)
            /\ trace[p].text = input0[trace[p].idx].text
            /\ trace[p].prompt = system_prompt
            /\ \A q \in 1..Len(trace) :
                   trace[q].ev = "call" => trace[q].prompt = trace[p].prompt

\* the second entry of a batch, with a text other than the first's, is retried
C29_Witness ==
    \E p \in 1..Len(trace) :
        /\ trace[p].ev = "call"
        /\ trace[p].attempt >= 2
        /\ trace[p].idx = 2
        /\ input0[1].text # input0[2].text

(***************************************************************************)
(* C22: once the stop has been requested, no further oracle call is made,  *)
(* neither a first attempt nor a retry.                                    *)
(***************************************************************************)
C22_NoCallAfterCancel ==
    [][cancel_requested => Len(trace') = Len(trace)]_vars

(***************************************************************************)
(* C28: for the k-th batch message "Sending batch b/t" of a run of main    *)
(* the progress bar is set to floor(80 * b / t) + 10, a value in 10..90    *)
(* that does not go down from one batch to the next.                       *)
(***************************************************************************)
BatchValue(k) == progress[2 + k]

NthProgress(k) == CHOOSE p \in ProgressAt : ProgressBefore(p) = k - 1

C28_ProgressBarFromBatch ==
    (caller = "main" /\ pc \in { "batch", "attempt" }) =>
        \A k \in 1..Cardinality(ProgressAt) :
            /\ BatchValue(k) = (80 * trace[NthProgress(k)].b) \div trace[NthProgress(k)].t + 10
            /\ BatchValue(k) \in 10..90
            /\ k > 1 => BatchValue(k - 1) <= BatchValue(k)

(***************************************************************************)
(* Extraction.                                                             *)
(***************************************************************************)
Extracted == ing_pc \in { "bytes", "path" }

\* the type the extension stands for, whatever the case of its letters
ExtensionType(name) ==
    LET low == str_lower(name)
        n == Len(low)
    IN IF n >= 4 /\ SubSeq(low, n - 3, n) = << ".", "p", "d", "f" >> THEN "pdf"
       ELSE IF n >= 5 /\ SubSeq(low, n - 4, n) = << ".", "d", "o", "c", "x" >> THEN "docx"
       ELSE "unknown"

\* nothing can be extracted: the extension is unknown, the bytes are not a file
\* of the extension's format, or the path cannot be read
NothingToExtract ==
    \/ ExtensionType(filename) = "unknown"
    \/ file_bytes.fmt # ExtensionType(filename)
    \/ ing_pc = "path" /\ ~path_readable

(***************************************************************************)
(* C24 as stated: extraction never raises; when nothing can be extracted   *)
(* it returns the empty text and success = FALSE; the type returned is the *)
(* one the extension stands for.                                           *)
(***************************************************************************)
C24_TypeByExtension ==
    Extracted =>
        /\ ~extracted.raised
        /\ NothingToExtract => (extracted.text = << >> /\ ~extracted.success)
        /\ extracted.file_type = ExtensionType(filename)

(***************************************************************************)
(* C24 amended: the same, but for a path that cannot be read the type      *)
(* returned is "unknown" whatever the extension.                           *)
(***************************************************************************)
C24_TypeByExtensionUnlessUnreadable ==
    Extracted =>
        /\ ~extracted.raised
        /\ NothingToExtract => (extracted.text = << >> /\ ~extracted.success)
        /\ extracted.file_type =
               IF ing_pc = "path" /\ ~path_readable THEN "unknown"
               ELSE ExtensionType(filename)

\* bytes no parser can read under a name with an upper-case extension
C24_Witness ==
    /\ ing_pc = "bytes"
    /\ filename = << "a", ".", "P", "D", "F" >>
    /\ file_bytes.fmt = "garbage"
    /\ extracted.file_type = "pdf"
    /\ ~extracted.success

\* a path that cannot be read
C24_WitnessUnreadable ==
    /\ ing_pc = "path"
    /\ ~path_readable
    /\ filename = << "a", ".", "d", "o", "c", "x" >>
    /\ extracted.file_type = "unknown"

(***************************************************************************)
(* The session of main.                                                    *)
(***************************************************************************)
(***************************************************************************)
(* C23: the oracle is called only when the last Begin Processing run       *)
(* extracted and segmented its document with success; after a run that     *)
(* ended with a failed extraction or with no entries there is no call      *)
(* until a later run succeeded.                                            *)
(***************************************************************************)
C23_NoOracleAfterFailedBegin ==
    last_action = "edit" => last_begin = "ok"

(***************************************************************************)
(* C26: after a run of AI editing that left an entry with edited = FALSE   *)
(* the Retry AI Editing button or the Edit with AI button is shown.        *)
(***************************************************************************)
C26_RetryOfferedAfterFailure ==
    ( /\ last_action = "edit"
      /\ st_editing_complete
      /\ \E k \in 1..Len(st_edited_chunks) : ~st_edited_chunks[k].edited )
    => (RetryOffered \/ EditOffered)

(***************************************************************************)
(* C27: whenever editing_complete is set, edited_chunks has the length of  *)
(* chunks and the same id at every index.                                  *)
(***************************************************************************)
C27_EditedMatchChunks ==
    st_editing_complete =>
        /\ Len(st_edited_chunks) = Len(st_chunks)
        /\ \A k \in 1..Len(st_chunks) : st_edited_chunks[k].day = st_chunks[k].day

\* C30: the renderer takes a line of an entry as the entry's header exactly when
\* DAY_RE of the segmenter matches the line
Rendered == "render" \in pdf_done

C30_HeaderDetectionIsDayRe ==
    Rendered =>
        \A k \in 1..Len(story) : \A m \in 1..Len(story[k].lines) :
            (story[k].header_at = m) <=> DAY_RE_match(story[k].lines[m]).matched

====
